---------------------------- MODULE Spec2Model ----------------------------
(***************************************************************************)
(* Resume Critic backend (src/server.js): the text-extraction dispatcher,  *)
(* the three POST handlers and the document renderer, as a state machine   *)
(* that serves one request at a time.  Requests share no state, so one     *)
(* request in flight shows every behaviour of a handler.                   *)
(*                                                                         *)
(* Strings are TLA+ strings.  Two characters of the source are outside the *)
(* ASCII range and are written here as ASCII stand-ins: the em dash        *)
(* (U+2014) of the experience and education lines is "--", the bullet      *)
(* (U+2022) is "*".  The backquote cannot stand in a TLA+ string either:   *)
(* the three-backquote code fence of an AI reply is written "'''".         *)
(***************************************************************************)
EXTENDS Integers, Sequences, FiniteSets, TLC

\* ------------------------------------------------------------------ bounds
MaxPages == 2       \* pages of a PDF the extractor iterates over
MaxExp == 2         \* experience entries of a rewritten resume

\* ------------------------------------------------------- program constants
MinTextLen == 10    \* handlers: extracted.trim().length < 10 is a failure

\* ----------------------------------------------------------- string helpers
\* String.prototype.includes
Includes(s, p) ==
  \E i \in 1..(Len(s) - Len(p) + 1) : SubSeq(s, i, i + Len(p) - 1) = p

\* index of the first occurrence of p in s, 0 when there is none
IndexOf(s, p) ==
  IF Includes(s, p)
  THEN CHOOSE i \in 1..(Len(s) - Len(p) + 1) :
         /\ SubSeq(s, i, i + Len(p) - 1) = p
         /\ \A j \in 1..(i - 1) : SubSeq(s, j, j + Len(p) - 1) # p
  ELSE 0

StartsWith(s, p) == Len(s) >= Len(p) /\ SubSeq(s, 1, Len(p)) = p

IsSpace(c) == c \in {" ", "\n", "\t", "\r"}

RECURSIVE TrimStart(_)
TrimStart(s) ==
  IF Len(s) > 0 /\ IsSpace(SubSeq(s, 1, 1))
  THEN TrimStart(SubSeq(s, 2, Len(s)))
  ELSE s

RECURSIVE TrimEnd(_)
TrimEnd(s) ==
  IF Len(s) > 0 /\ IsSpace(SubSeq(s, Len(s), Len(s)))
  THEN TrimEnd(SubSeq(s, 1, Len(s) - 1))
  ELSE s

\* String.prototype.trim
Trim(s) == TrimStart(TrimEnd(s))

\* Array.prototype.join on an array of strings
RECURSIVE Join(_, _)
Join(xs, sep) ==
  IF Len(xs) = 0 THEN ""
  ELSE IF Len(xs) = 1 THEN xs[1]
  ELSE xs[1] \o sep \o Join(Tail(xs), sep)

\* String.prototype.split on a non-empty separator
RECURSIVE Split(_, _)
Split(s, sep) ==
  LET i == IndexOf(s, sep) IN
  IF i = 0 THEN <<s>>
  ELSE <<SubSeq(s, 1, i - 1)>> \o Split(SubSeq(s, i + Len(sep), Len(s)), sep)

\* how many times x occurs in the sequence xs
Count(xs, x) == Cardinality({i \in 1..Len(xs) : xs[i] = x})

\* ------------------------------------------------------------------ inputs
Absent == "<absent>"          \* a body field that is not in the JSON body

PdfMime  == "application/pdf"
DocxMime == "application/vnd.openxmlformats-officedocument.wordprocessingml.document"
DocMime  == "application/msword"
NoMatch  == "<undefined>"     \* fileTypeFromBuffer resolved to undefined

\* resumeText / resumeFile values a client sends: base64, bare or as a data URL
FilePayloads ==
  { "JVBERi0xLjQ=",
    "data:application/pdf;base64,JVBERi0xLjQ=",
    "UEstZG9jeA==",
    "R0lGODlh",
    "Sm9obiBEb2UsIFNvZnR3YXJlIEVuZ2luZWVy",
    "data:text/plain;base64,Sm9obiBEb2UsIFNvZnR3YXJlIEVuZ2luZWVy",
    "ICBzaG9ydCAg",
    "ICAg",
    "IDAxMjM0NTY3ODkK",
    "MTIzNDU2Nzg5",
    "data:text/plain;base64," }

MimeHints == {"", PdfMime, DocxMime, DocMime, "text/plain"}

\* Buffer.from(s, 'base64') on the payloads above
Base64Decode(s) ==
  CASE s = "JVBERi0xLjQ=" -> "%PDF-1.4"
    [] s = "UEstZG9jeA==" -> "PK-docx"
    [] s = "R0lGODlh" -> "GIF89a"
    [] s = "Sm9obiBEb2UsIFNvZnR3YXJlIEVuZ2luZWVy" -> "John Doe, Software Engineer"
    [] s = "ICBzaG9ydCAg" -> "  short  "
    [] s = "ICAg" -> "   "
    [] s = "IDAxMjM0NTY3ODkK" -> " 0123456789\n"
    [] s = "MTIzNDU2Nzg5" -> "123456789"
    [] OTHER -> ""

\* resumeText.includes('base64,') ? resumeText.split('base64,')[1] : resumeText
Base64Data(s) ==
  IF Includes(s, "base64,") THEN Split(s, "base64,")[2] ELSE s

\* fileTypeFromBuffer: classification by the leading magic bytes
FileTypeFromBuffer(buf) ==
  CASE StartsWith(buf, "%PDF") -> PdfMime
    [] StartsWith(buf, "PK") -> DocxMime
    [] StartsWith(buf, "GIF8") -> "image/gif"
    [] OTHER -> NoMatch

\* ------------------------------------------------ what the extractors meet
\* text items of one PDF page (a scanned page has none)
PageItems == { <<>>, <<"Jane", "Doe">>, <<"Senior Engineer, Acme">> }

PdfDocs == UNION { [1..n -> PageItems] : n \in 1..MaxPages }

\* messages of the errors pdfjs throws; "" is an error without a message
PdfErrors ==
  { "Invalid PDF structure",
    "Cannot load font data",
    "standardFontDataUrl was not provided",
    "Font file missing",
    "" }

\* result.value of mammoth.extractRawText
DocxValues == { "", " \n", "Jane Doe\n\nSenior Engineer\n\n", "Jane\n\n" }

DocxErrors == { "Can't find end of central directory", "" }

\* loop of extractTextFromPDF / extractTextFromPDFFallback over the pages
RECURSIVE PdfFullText(_)
PdfFullText(pages) ==
  IF Len(pages) = 0 THEN ""
  ELSE Join(pages[1], " ") \o "\n" \o PdfFullText(Tail(pages))

Ok(v)    == [ok |-> TRUE, val |-> v]
Throw(m) == [ok |-> FALSE, val |-> m]
None     == [ok |-> FALSE, val |-> "<none>"]

PdfOutcomes == { Ok(PdfFullText(d)) : d \in PdfDocs } \cup { Throw(m) : m \in PdfErrors }

DocxOutcomes == { Ok(v) : v \in DocxValues } \cup { Throw(m) : m \in DocxErrors }

UnsupportedMsg == "Unsupported file type. Please upload a PDF, DOCX, DOC, or TXT file."


\* ------------------------------------------------------------ AI service
\* response.text() of the replies the model may give
AIReplies ==
  { "{\"overall\":\"7/10\"}",
    "'''json\n{\"overall\":\"7/10\"}\n'''",
    "'''\n{\"overall\":\"7/10\"}\n'''\n",
    "Here is the result: {\"overall\":\"7/10\"}",
    "{\"overall\": ",
    "" }

AIErrors == { "fetch failed" }

AIOutcomes == { Ok(t) : t \in AIReplies } \cup { Throw(m) : m \in AIErrors }

\* text.replace(/FENCEjson|FENCE/g, ""), FENCE being the three-character fence
RECURSIVE StripFences(_)
StripFences(s) ==
  IF Len(s) = 0 THEN ""
  ELSE IF StartsWith(s, "'''json") THEN StripFences(SubSeq(s, 8, Len(s)))
  ELSE IF StartsWith(s, "'''") THEN StripFences(SubSeq(s, 4, Len(s)))
  ELSE SubSeq(s, 1, 1) \o StripFences(SubSeq(s, 2, Len(s)))

\* the JSON texts, among those the replies can be cleaned to, that JSON.parse accepts
JsonTexts == { "{\"overall\":\"7/10\"}" }

\* JSON.parse: the parsed value is stood for by its canonical text
JsonParse(s) ==
  IF s \in JsonTexts THEN Ok(s) ELSE Throw("Unexpected end of JSON input")

\* const cleanJson = text.replace(...).trim(); JSON.parse(cleanJson)
ParseReplyMutNoParse(text) == Ok(Trim(StripFences(text)))
ParseReply(text) == JsonParse(Trim(StripFences(text)))

\* ------------------------------------------------------------------- state
VARIABLES
  pc,          \* "idle", "pdf", "pdfFallback", "docx", "ai", "done"
  ep,          \* endpoint of the request in flight
  req,         \* its body
  buffer,      \* decoded upload
  detected,    \* result of fileTypeFromBuffer
  branch,      \* branch extractText took: "pdf", "docx", "txt", "none"
  primary,     \* outcome of extractTextFromPDF
  fallback,    \* outcome of extractTextFromPDFFallback
  extractRes,  \* what extractText returned or threw
  calls,       \* extractor, AI and renderer invocations of this request, in order
  prompt,      \* resume text interpolated into the prompt sent to the AI service
  reply,       \* what model.generateContent answered: the reply text, or its error
  responses    \* responses written to res for this request, in order

vars == <<pc, ep, req, buffer, detected, branch, primary, fallback,
          extractRes, calls, prompt, reply, responses>>

NoDoc == <<>>

\* a response: status line, headers that matter, and body
Json(status, success, error, details, value) ==
  [status |-> status, ctype |-> "application/json", disposition |-> Absent,
   success |-> success, error |-> error, details |-> details,
   value |-> value, text |-> Absent, doc |-> NoDoc]

Attachment(ctype, filename, text, doc) ==
  [status |-> 200, ctype |-> ctype,
   disposition |-> "attachment; filename=\"" \o filename \o "\"",
   success |-> Absent, error |-> Absent, details |-> Absent,
   value |-> Absent, text |-> text, doc |-> doc]

NoResume == [none |-> TRUE]

EmptyReq ==
  [file |-> Absent, mimeType |-> Absent, critique |-> Absent,
   resume |-> NoResume, format |-> Absent]

\* !x for a string body field: undefined and "" are falsy
FalsyMutEmptyOnly(x) == x = ""
Falsy(x) == x = Absent \/ x = ""

Init ==
  /\ pc = "idle"
  /\ ep = "none"
  /\ req = EmptyReq
  /\ buffer = ""
  /\ detected = NoMatch
  /\ branch = "none"
  /\ primary = None
  /\ fallback = None
  /\ extractRes = None
  /\ calls = <<>>
  /\ prompt = ""
  /\ reply = None
  /\ responses = <<>>

\* ------------------------------------------------------------ extractText
\* const mime = detected?.mime || mimeTypeHint
MimeMutHintFirst(d, hint) == IF hint # "" THEN hint ELSE d
Mime(d, hint) == IF d # NoMatch THEN d ELSE hint

\* the if-chain of extractText
Branch(mime) ==
  IF mime = PdfMime THEN "pdf"
  ELSE IF mime = DocxMime \/ mime = DocMime THEN "docx"
  ELSE "txt"

\* err.message?.includes('standardFontDataUrl') || err.message?.includes('font')
IsFontErrorMutAlways(msg) == TRUE
IsFontError(msg) == Includes(msg, "standardFontDataUrl") \/ Includes(msg, "font")

\* the plain-text branch and the final throw
TxtBranchMutNoCheck(buf) == Ok(buf)
TxtBranch(buf) ==
  LET text == buf IN
  IF Len(Trim(text)) > 0 THEN Ok(text) ELSE Throw(UnsupportedMsg)

\* ------------------------------------------- handlers after extractText
\* the message of the error a handler throws when extractText threw
ParseErrMessageMutRewriteKeeps(e, msg) ==
  IF msg # "" THEN msg ELSE "Could not read file content."
ParseErrMessage(e, msg) ==
  IF e = "analyze"
  THEN (IF msg # "" THEN msg ELSE "Could not read file content.")
  ELSE "Could not re-read the resume file. Please try again."

EmptyMessage(e) ==
  IF e = "analyze"
  THEN "The file appears to be empty or image-based (e.g. a scanned PDF)."
  ELSE "Could not extract enough text from the resume."

ErrorLabel(e) ==
  CASE e = "analyze" -> "AI analysis failed"
    [] e = "rewrite" -> "Rewrite failed"
    [] OTHER -> "Download failed"

\* !extractedText || extractedText.trim().length < 10
TooShortMutEmptyOnly(text) == Len(text) = 0
TooShort(text) == Len(text) = 0 \/ Len(Trim(text)) < MinTextLen

\* the catch block of a handler
Catch(e, msg) == Json(500, "false", ErrorLabel(e), msg, Absent)

\* a handler from the return (or throw) of extractText up to its next await
Continue(e, res, cs) ==
  /\ extractRes' = res
  /\ IF ~res.ok
     THEN /\ pc' = "done"
          /\ calls' = cs
          /\ prompt' = ""
          /\ responses' = <<Catch(e, ParseErrMessage(e, res.val))>>
     ELSE IF TooShort(res.val)
     THEN /\ pc' = "done"
          /\ calls' = cs
          /\ prompt' = ""
          /\ responses' = <<Catch(e, EmptyMessage(e))>>
     ELSE /\ pc' = "ai"
          /\ calls' = Append(cs, "ai")
          /\ prompt' = res.val
          /\ responses' = <<>>

\* a handler from its entry to its first await that an extractor or the AI answers
Handle(e, body) ==
  /\ pc = "idle"
  /\ ep' = e
  /\ req' = body
  /\ primary' = None
  /\ fallback' = None
  /\ reply' = None
  /\ IF Falsy(body.file) \/ (e = "rewrite" /\ Falsy(body.critique))
     THEN /\ pc' = "done"
          /\ buffer' = ""
          /\ detected' = NoMatch
          /\ branch' = "none"
          /\ extractRes' = None
          /\ calls' = <<>>
          /\ prompt' = ""
          /\ responses' = <<Json(400, "false",
                                 IF e = "analyze" THEN "No resume file provided"
                                 ELSE "Missing resume file or critique",
                                 Absent, Absent)>>
     ELSE LET buf  == Base64Decode(Base64Data(body.file))
              hint == IF body.mimeType = Absent THEN "" ELSE body.mimeType
              d    == FileTypeFromBuffer(buf)
              b    == Branch(Mime(d, hint))
          IN /\ buffer' = buf
             /\ detected' = d
             /\ branch' = b
             /\ IF b = "txt"
                THEN Continue(e, TxtBranch(buf), <<"txt">>)
                ELSE /\ pc' = b
                     /\ calls' = <<b>>
                     /\ extractRes' = None
                     /\ prompt' = ""
                     /\ responses' = <<>>


\* bodies of analyze-resume and rewrite-resume requests
UploadBodies ==
  { [EmptyReq EXCEPT !.file = f, !.mimeType = m, !.critique = c] :
      f \in FilePayloads \cup {Absent, ""},
      m \in MimeHints \cup {Absent},
      c \in {Absent, "{strengths, weaknesses, suggestions, overall}"} }

\* POST /api/analyze-resume, up to its first pending await
AnalyzeResume == \E body \in UploadBodies : Handle("analyze", body)

\* POST /api/rewrite-resume, up to its first pending await
RewriteResume == \E body \in UploadBodies : Handle("rewrite", body)

\* extractTextFromPDF settles: the try/catch of the PDF branch
PdfPrimaryReturns ==
  /\ pc = "pdf"
  /\ \E o \in PdfOutcomes :
       /\ primary' = o
       /\ IF ~o.ok /\ IsFontError(o.val)
          THEN /\ pc' = "pdfFallback"
               /\ calls' = Append(calls, "pdfFallback")
               /\ UNCHANGED <<extractRes, prompt, responses>>
          ELSE Continue(ep, o, calls)
  /\ UNCHANGED <<ep, req, buffer, detected, branch, fallback, reply>>

\* extractTextFromPDFFallback settles: its result or error is extractText's
PdfFallbackReturns ==
  /\ pc = "pdfFallback"
  /\ \E o \in PdfOutcomes :
       /\ fallback' = o
       /\ Continue(ep, o, calls)
  /\ UNCHANGED <<ep, req, buffer, detected, branch, primary, reply>>

\* extractTextFromDocx settles
DocxReturns ==
  /\ pc = "docx"
  /\ \E o \in DocxOutcomes :
       Continue(ep, o, calls)
  /\ UNCHANGED <<ep, req, buffer, detected, branch, primary, fallback, reply>>

\* model.generateContent settles: fence-stripping, JSON.parse and the response
AIReturns ==
  /\ pc = "ai"
  /\ \E o \in AIOutcomes :
       LET parsed == IF o.ok THEN ParseReply(o.val) ELSE o IN
       /\ reply' = o
       /\ responses' = Append(responses,
                      IF parsed.ok
                      THEN Json(200, "true", Absent, Absent, parsed.val)
                      ELSE Catch(ep, parsed.val))
  /\ pc' = "done"
  /\ UNCHANGED <<ep, req, buffer, detected, branch, primary, fallback,
                 extractRes, calls, prompt>>

\* ------------------------------------------------------ document renderer
Has(r, f) == f \in DOMAIN r

ExpEntries ==
  { [title |-> "Dev", company |-> "Acme", duration |-> "2019-2021",
     bullets |-> <<"Shipped the API">>],
    [title |-> "Lead", company |-> "Initech", duration |-> "2021-2024",
     bullets |-> <<"Led a team", "Cut costs">>],
    [title |-> "Intern", company |-> "Globex", duration |-> "2018", bullets |-> <<>>],
    [title |-> "Temp", company |-> "Hooli", duration |-> "2017"] }

Experiences == UNION { [1..n -> ExpEntries] : n \in 0..MaxExp }

Educations ==
  { <<>>,
    <<[degree |-> "BSc", institution |-> "NTNU", duration |-> "2014-2017"],
      [degree |-> "MSc", institution |-> "KTH", duration |-> "2017-2019"]>> }

SkillLists == { <<"Go">>, <<"Go", "SQL">> }

CertLists == { <<>>, <<"AWS SA">>, <<"AWS SA", "CKA">> }

\* an element of references is a referee object or a bare string; a bare string
\* s is written [str |-> s], a set of TLA+ values being of one kind
RefLists ==
  { <<[str |-> "Available upon request"]>>,
    <<[name |-> "Ann Lee", title |-> "CTO", company |-> "Acme",
       phone |-> "555-0100", email |-> "ann@acme.io"]>> }

Header ==
  [name |-> "Jane Doe", email |-> "jane@doe.io", phone |-> "555-0199",
   location |-> "Oslo", summary |-> "Backend engineer."]

\* r with field f set to v, or without it when v is not given
With(r, f, vs) ==
  { r } \cup { [k \in DOMAIN r \cup {f} |-> IF k = f THEN v ELSE r[k]] : v \in vs }

\* rewrittenResume values of a download request: the declared shape, and shapes
\* with optional or structural fields missing (the shape is never validated)
Resumes ==
  UNION { With(r4, "references", RefLists) :
    r4 \in UNION { With(r3, "certifications", CertLists) :
      r3 \in UNION { With(r2, "skills", SkillLists) :
        r2 \in UNION { With(r1, "education", Educations) :
          r1 \in UNION { With(Header, "experience", Experiences) } } } } }

Formats == { Absent, "", "txt", "docx", "doc", "pdf", "rtf", "PDF" }

TypeErrorMap  == "Cannot read properties of undefined (reading 'map')"
TypeErrorJoin == "Cannot read properties of undefined (reading 'join')"

\* exp.bullets.map(b => BULLET + " " + b).join('\n')
BulletLines(exp) == Join([i \in 1..Len(exp.bullets) |-> "* " \o exp.bullets[i]], "\n")

\* one element of rewrittenResume.experience.map(...) in the plain-text template
ExpBlock(exp) ==
  "\n" \o exp.title \o " -- " \o exp.company \o " (" \o exp.duration \o ")\n"
       \o BulletLines(exp) \o "\n"

EduLine(e) == e.degree \o " -- " \o e.institution \o " (" \o e.duration \o ")"

\* (rewrittenResume.certifications || [])
CertsOrEmpty(r) == IF Has(r, "certifications") THEN r.certifications ELSE <<>>

\* the first TypeError that evaluating the plainText template raises, "" when none
TemplateError(r) ==
  IF ~Has(r, "experience") THEN TypeErrorMap
  ELSE IF \E i \in 1..Len(r.experience) : ~Has(r.experience[i], "bullets") THEN TypeErrorMap
  ELSE IF ~Has(r, "education") THEN TypeErrorMap
  ELSE IF ~Has(r, "skills") THEN TypeErrorJoin
  ELSE ""

\* the plainText template literal and its .trim()
PlainText(r) ==
  Trim(
    "\n" \o r.name \o "\n"
    \o r.email \o " | " \o r.phone \o " | " \o r.location \o "\n"
    \o "\nPROFESSIONAL SUMMARY\n" \o r.summary \o "\n"
    \o "\nEXPERIENCE\n"
    \o Join([i \in 1..Len(r.experience) |-> ExpBlock(r.experience[i])], "\n") \o "\n"
    \o "\nEDUCATION\n"
    \o Join([i \in 1..Len(r.education) |-> EduLine(r.education[i])], "\n") \o "\n"
    \o "\nSKILLS\n" \o Join(r.skills, ", ") \o "\n"
    \o "\nCERTIFICATIONS\n" \o Join(CertsOrEmpty(r), "\n") \o "\n    ")

\* a Paragraph of the docx Document: its text and how it is styled
Para(text, style) == [text |-> text, style |-> style]

\* rewrittenResume.experience.flatMap(exp => [...]) of the docx Document
RECURSIVE ExpParas(_)
ExpParas(exps) ==
  IF Len(exps) = 0 THEN <<>>
  ELSE LET exp == exps[1] IN
       <<Para(exp.title \o " -- " \o exp.company, "bold"), Para(exp.duration, "normal")>>
       \o [i \in 1..Len(exp.bullets) |-> Para("* " \o exp.bullets[i], "normal")]
       \o <<Para("", "normal")>>
       \o ExpParas(Tail(exps))

\* ...(rewrittenResume.certifications?.length ? [heading, ...items] : [])
CertParas(r) ==
  IF Has(r, "certifications") /\ Len(r.certifications) > 0
  THEN <<Para("CERTIFICATIONS", "heading1")>>
       \o [i \in 1..Len(r.certifications) |-> Para(r.certifications[i], "normal")]
  ELSE <<>>

\* children of the single section of new Document({...})
DocxChildren(r) ==
  <<Para(r.name, "title"),
    Para(r.email \o " | " \o r.phone \o " | " \o r.location, "normal"),
    Para("", "normal"),
    Para("PROFESSIONAL SUMMARY", "heading1"),
    Para(r.summary, "normal"),
    Para("", "normal"),
    Para("EXPERIENCE", "heading1")>>
  \o ExpParas(r.experience)
  \o <<Para("EDUCATION", "heading1")>>
  \o [i \in 1..Len(r.education) |-> Para(EduLine(r.education[i]), "normal")]
  \o <<Para("", "normal"),
       Para("SKILLS", "heading1"),
       Para(Join(r.skills, ", "), "normal"),
       Para("", "normal")>>
  \o CertParas(r)

\* the chain of format tests of download-resume, once plainText is built
FormatResponseMutPdfBinary(r, format, plainText) ==
  IF format = "txt"
  THEN Attachment("text/plain", "resume.txt", plainText, NoDoc)
  ELSE IF format \in {"docx", "doc", "pdf"}
  THEN Attachment(DocxMime, "resume." \o format, Absent, DocxChildren(r))
  ELSE Json(400, "false", "Unsupported format", Absent, Absent)
FormatResponse(r, format, plainText) ==
  IF format = "txt"
  THEN Attachment("text/plain", "resume.txt", plainText, NoDoc)
  ELSE IF format = "docx" \/ format = "doc"
  THEN Attachment(DocxMime, "resume." \o format, Absent, DocxChildren(r))
  ELSE IF format = "pdf"
  THEN [Json(200, "true", Absent, Absent, Absent) EXCEPT !.text = plainText]
  ELSE Json(400, "false", "Unsupported format", Absent, Absent)

DownloadBodies ==
  { [EmptyReq EXCEPT !.resume = r, !.format = f] :
      r \in Resumes \cup {NoResume}, f \in Formats }

\* POST /api/download-resume
DownloadResume ==
  /\ pc = "idle"
  /\ \E body \in DownloadBodies :
       LET r == body.resume
           f == body.format
       IN /\ req' = body
          /\ IF r = NoResume \/ Falsy(f)
             THEN /\ calls' = <<>>
                  /\ responses' = <<Json(400, "false", "Missing resume data or format",
                                         Absent, Absent)>>
             ELSE IF TemplateError(r) # ""
             THEN /\ calls' = <<>>
                  /\ responses' = <<Catch("download", TemplateError(r))>>
             ELSE /\ calls' = IF f = "docx" \/ f = "doc"
                              THEN <<"plainText", "Document">>
                              ELSE <<"plainText">>
                  /\ responses' = <<FormatResponse(r, f, PlainText(r))>>
  /\ ep' = "download"
  /\ pc' = "done"
  /\ UNCHANGED <<buffer, detected, branch, primary, fallback, extractRes, prompt, reply>>

\* GET /api/health
Health ==
  /\ pc = "idle"
  /\ ep' = "health"
  /\ pc' = "done"
  /\ responses' = <<Json(200, Absent, Absent, Absent, "Resume Critic API is running")>>
  /\ UNCHANGED <<req, buffer, detected, branch, primary, fallback,
                 extractRes, calls, prompt, reply>>

\* the handler has returned: everything request-scoped is dropped
Finish ==
  /\ pc = "done"
  /\ pc' = "idle"
  /\ ep' = "none"
  /\ req' = EmptyReq
  /\ buffer' = ""
  /\ detected' = NoMatch
  /\ branch' = "none"
  /\ primary' = None
  /\ fallback' = None
  /\ extractRes' = None
  /\ calls' = <<>>
  /\ prompt' = ""
  /\ reply' = None
  /\ responses' = <<>>

Next ==
  \/ AnalyzeResume
  \/ RewriteResume
  \/ PdfPrimaryReturns
  \/ PdfFallbackReturns
  \/ DocxReturns
  \/ AIReturns
  \/ DownloadResume
  \/ Health
  \/ Finish

Spec == Init /\ [][Next]_vars


\* ------------------------------------------------------------------ claims
Upload == ep \in {"analyze", "rewrite"}

\* an error message that names a font resource
FontRelated(m) == Includes(m, "standardFontDataUrl") \/ Includes(m, "font")

\* C1: in the PDF branch of extractText, a primary failure with a font-related
\* message invokes the fallback extractor exactly once and the fallback's result
\* or error is what extractText gives; after any other primary failure, and
\* after a primary success, the fallback is never invoked and the primary's
\* error or text is what extractText gives.
C1_FontFallbackOnly ==
  (Upload /\ branch = "pdf") =>
    /\ Count(calls, "pdf") = 1
    /\ primary = None => (Count(calls, "pdfFallback") = 0 /\ extractRes = None)
    /\ (primary # None /\ ~primary.ok /\ FontRelated(primary.val)) =>
         /\ Count(calls, "pdfFallback") = 1
         /\ extractRes = fallback
    /\ (primary # None /\ ~(~primary.ok /\ FontRelated(primary.val))) =>
         /\ Count(calls, "pdfFallback") = 0
         /\ fallback = None
         /\ extractRes = primary

\* C1 witness: a font failure was answered by the fallback, whose error is returned
C1_Witness ==
  /\ Upload /\ branch = "pdf"
  /\ primary = Throw("Cannot load font data")
  /\ fallback = Throw("Invalid PDF structure")
  /\ extractRes = fallback
  /\ calls = <<"pdf", "pdfFallback">>

TrimmedLen(t) == Len(Trim(t))

\* C2: in analyze-resume and rewrite-resume, extracted text that is empty or
\* under 10 characters after trimming ends the request with one failure
\* response (success false, the empty-content message) and no AI call; the AI
\* service is called only after extraction gave at least 10 trimmed characters.
C2_ShortTextNeverReachesAI ==
  Upload =>
    /\ (extractRes.ok /\ TrimmedLen(extractRes.val) < MinTextLen) =>
         /\ pc = "done"
         /\ Count(calls, "ai") = 0
         /\ reply = None
         /\ Len(responses) = 1
         /\ responses[1].status = 500
         /\ responses[1].success = "false"
         /\ responses[1].details = EmptyMessage(ep)
    /\ Count(calls, "ai") > 0 =>
         /\ extractRes.ok
         /\ TrimmedLen(extractRes.val) >= MinTextLen
         /\ calls[Len(calls)] = "ai"

\* C2 witness: nine characters after trimming, refused without an AI call
C2_Witness ==
  /\ Upload
  /\ extractRes.ok
  /\ TrimmedLen(extractRes.val) = MinTextLen - 1
  /\ pc = "done"
  /\ Count(calls, "ai") = 0
  /\ responses[1].success = "false"

\* a required body field of the request in flight is not in the body
MissingRequired ==
  \/ ep = "analyze" /\ req.file = Absent
  \/ ep = "rewrite" /\ (req.file = Absent \/ req.critique = Absent)
  \/ ep = "download" /\ (req.resume = NoResume \/ req.format = Absent)

\* C3: a POST request whose required body field is absent gets HTTP 400 with
\* success false, and nothing is extracted, sent to the AI service or rendered.
C3_MissingInputIs400 ==
  MissingRequired =>
    /\ pc = "done"
    /\ Len(responses) = 1
    /\ responses[1].status = 400
    /\ responses[1].success = "false"
    /\ calls = <<>>
    /\ extractRes = None
    /\ reply = None

\* C3 witness: a rewrite request with its file but without its critique
C3_Witness ==
  /\ ep = "rewrite"
  /\ req.file \in FilePayloads
  /\ req.critique = Absent
  /\ responses = <<Json(400, "false", "Missing resume file or critique", Absent, Absent)>>

Download == ep = "download" /\ req.resume # NoResume

\* what the format alone asks of the response r
FormatDecides(r, f) ==
  IF f = "txt"
  THEN r.status = 200 /\ r.ctype = "text/plain" /\ r.text # Absent /\ r.doc = NoDoc
  ELSE IF f \in {"docx", "doc"}
  THEN r.status = 200 /\ r.ctype = DocxMime /\ r.doc # NoDoc
  ELSE IF f = "pdf"
  THEN /\ r.status = 200 /\ r.success = "true" /\ r.text # Absent
       /\ r.doc = NoDoc /\ Count(calls, "Document") = 0
  ELSE r.status = 400 /\ r.success = "false" /\ r.error = "Unsupported format"

\* C4 as stated: with rewrittenResume present (and a format in the body), the
\* response of download-resume is determined by format alone.
C4_FormatAloneDecides ==
  (Download /\ req.format # Absent) =>
    (Len(responses) = 1 /\ FormatDecides(responses[1], req.format))

\* experience (every entry with its bullets), education and skills are arrays
Renderable(r) ==
  /\ Has(r, "experience") /\ Has(r, "education") /\ Has(r, "skills")
  /\ \A i \in 1..Len(r.experience) : Has(r.experience[i], "bullets")

\* C4 amended: with rewrittenResume present and format non-empty, the response
\* is determined by format alone whenever the plain-text template can be built
\* (the txt attachment and the pdf JSON carry that plain text); when building
\* it throws, every format gets HTTP 500 "Download failed"; an empty format
\* gets HTTP 400 "Missing resume data or format".
C4_FormatDecidesIfRenderable ==
  (Download /\ req.format # Absent) =>
    /\ Len(responses) = 1
    /\ req.format = "" =>
         /\ responses[1].status = 400
         /\ responses[1].error = "Missing resume data or format"
         /\ calls = <<>>
    /\ (req.format # "" /\ Renderable(req.resume)) =>
         /\ FormatDecides(responses[1], req.format)
         /\ req.format \in {"txt", "pdf"} => responses[1].text = PlainText(req.resume)
    /\ (req.format # "" /\ ~Renderable(req.resume)) =>
         /\ responses[1].status = 500
         /\ responses[1].success = "false"
         /\ responses[1].error = "Download failed"
         /\ responses[1].doc = NoDoc

\* C4 witness: format pdf answered with JSON carrying the plain text, no Document
C4_Witness ==
  /\ Download
  /\ req.format = "pdf"
  /\ Renderable(req.resume)
  /\ responses[1].success = "true"
  /\ responses[1].text = PlainText(req.resume)
  /\ calls = <<"plainText">>

ExtractionFailed == Upload /\ extractRes # None /\ ~extractRes.ok

\* C5 as stated: every failure of extractText reaches the caller as HTTP 500
\* {success false, error, details} with the failure's own message in details.
C5_DetailsCarryFailure ==
  ExtractionFailed =>
    /\ Len(responses) = 1
    /\ responses[1].status = 500
    /\ responses[1].success = "false"
    /\ responses[1].details = extractRes.val

\* C5 amended: every failure of extractText reaches the caller as HTTP 500
\* {success false, error, details}; analyze-resume puts the failure's message
\* in details, or "Could not read file content." when that message is empty;
\* rewrite-resume always puts "Could not re-read the resume file. Please try
\* again." there.
C5_DetailsPerEndpoint ==
  ExtractionFailed =>
    /\ pc = "done"
    /\ Len(responses) = 1
    /\ responses[1].status = 500
    /\ responses[1].success = "false"
    /\ responses[1].error # Absent
    /\ ep = "analyze" =>
         responses[1].details =
           (IF extractRes.val = "" THEN "Could not read file content." ELSE extractRes.val)
    /\ ep = "rewrite" =>
         responses[1].details = "Could not re-read the resume file. Please try again."

\* C5 witness: rewrite-resume hides an UnsupportedFormat failure behind its fixed message
C5_Witness ==
  /\ ep = "rewrite"
  /\ extractRes = Throw(UnsupportedMsg)
  /\ responses[1].status = 500
  /\ responses[1].details # extractRes.val


\* the request in flight was answered with a rendering of its resume
Rendered == Download /\ Len(responses) = 1 /\ responses[1].status = 200

WithheldReferences == <<[str |-> "Available upon request"]>>

\* C6: a RewrittenResume whose references is ["Available upon request"]
\* renders to plain text that contains that exact phrase (and no referee table).
C6_WithheldPhraseRendered ==
  (/\ Rendered
   /\ req.format \in {"txt", "pdf"}
   /\ Has(req.resume, "references")
   /\ req.resume.references = WithheldReferences) =>
    /\ Includes(responses[1].text, "Available upon request")
    /\ ~Includes(responses[1].text, "REFERENCES")

SectionLabels ==
  {"PROFESSIONAL SUMMARY", "EXPERIENCE", "EDUCATION", "SKILLS", "CERTIFICATIONS"}

IsLabel(l) == l \in SectionLabels
NonEmpty(l) == l # ""

\* the section labels of a plain-text rendering, in order
PlainSections(text) == SelectSeq(Split(text, "\n"), IsLabel)

IsHeading(p) == p.style = "heading1"

\* the section headings of a word-processing rendering, in order
DocxSections(doc) ==
  LET hs == SelectSeq(doc, IsHeading) IN [i \in 1..Len(hs) |-> hs[i].text]

\* the non-empty lines that follow label l up to the next label
RECURSIVE UpToLabel(_)
UpToLabel(ls) ==
  IF Len(ls) = 0 \/ IsLabel(ls[1]) THEN <<>> ELSE <<ls[1]>> \o UpToLabel(Tail(ls))

SectionLines(ls, l) ==
  IF \E i \in 1..Len(ls) : ls[i] = l
  THEN LET i == CHOOSE j \in 1..Len(ls) : ls[j] = l /\ \A k \in 1..(j - 1) : ls[k] # l
       IN SelectSeq(UpToLabel(SubSeq(ls, i + 1, Len(ls))), NonEmpty)
  ELSE <<>>

DocxLines(doc) == [i \in 1..Len(doc) |-> doc[i].text]

\* C7: the plain-text and the word-processing rendering of one RewrittenResume
\* hold the same sections in the same order, also when certifications is empty
\* or absent, with the same lines in the summary, education, skills and
\* certifications sections.
C7_SameSectionsBothRenderings ==
  (Rendered /\ req.format \in {"txt", "docx", "doc"}) =>
    LET plain == IF req.format = "txt" THEN responses[1].text ELSE PlainText(req.resume)
        doc   == IF req.format = "txt" THEN DocxChildren(req.resume) ELSE responses[1].doc
    IN /\ PlainSections(plain) = DocxSections(doc)
       /\ \A l \in SectionLabels \ {"EXPERIENCE"} :
            SectionLines(Split(plain, "\n"), l) = SectionLines(DocxLines(doc), l)

\* C8 as stated: whatever the branch, extractText returns text that is
\* non-empty after trimming, or fails.
C8_NeverReturnsBlank ==
  (Upload /\ extractRes.ok) => TrimmedLen(extractRes.val) > 0

ListsAcceptedTypes(m) ==
  Includes(m, "PDF") /\ Includes(m, "DOCX") /\ Includes(m, "DOC,") /\ Includes(m, "TXT")

\* C8 amended: in the plain-text branch extractText returns the buffer's text,
\* non-empty after trimming, or fails with the UnsupportedFormat error that
\* lists PDF, DOCX, DOC and TXT; in the PDF and Word branches it gives what the
\* extractor gave, blank text included, and never the UnsupportedFormat error.
C8_BlankRefusedInTextBranchOnly ==
  (Upload /\ extractRes # None) =>
    /\ branch = "txt" =>
         IF TrimmedLen(buffer) > 0
         THEN extractRes = Ok(buffer)
         ELSE ~extractRes.ok /\ ListsAcceptedTypes(extractRes.val)
    /\ branch = "pdf" => extractRes \in {primary, fallback} \ {None}
    /\ branch = "docx" => extractRes \in DocxOutcomes
    /\ (branch # "txt" /\ ~extractRes.ok) => ~ListsAcceptedTypes(extractRes.val)

\* C8 witness: a blank buffer in the plain-text branch fails as UnsupportedFormat
C8_Witness ==
  /\ Upload
  /\ branch = "txt"
  /\ buffer = "   "
  /\ extractRes = Throw(UnsupportedMsg)

WordMimes == {DocxMime, DocMime}

\* the extractor a MIME type stands for
ExtractorFor(m) ==
  IF m = PdfMime THEN "pdf" ELSE IF m \in WordMimes THEN "docx" ELSE "txt"

HintGiven == IF req.mimeType = Absent THEN "" ELSE req.mimeType

\* C9: the hint selects the extractor exactly when detection yields no match;
\* a detected type decides alone.  So a PDF hint reaches the PDF extractor, and
\* a Word hint the DOCX extractor, exactly when detection yields that kind or
\* no match.
C9_HintOnlyWithoutDetection ==
  (Upload /\ branch # "none") =>
    /\ detected # NoMatch => branch = ExtractorFor(detected)
    /\ detected = NoMatch => branch = ExtractorFor(HintGiven)
    /\ HintGiven = PdfMime => (branch = "pdf" <=> detected \in {PdfMime, NoMatch})
    /\ HintGiven \in WordMimes => (branch = "docx" <=> detected \in WordMimes \cup {NoMatch})
    /\ calls[1] = branch

\* C9 witness: a PDF hint is ignored for a buffer detected as a Word document
C9_Witness ==
  /\ Upload
  /\ HintGiven = PdfMime
  /\ detected = DocxMime
  /\ branch = "docx"
  /\ calls[1] = "docx"

\* the AI reply is JSON once its fences are stripped and it is trimmed
ReplyIsJson == reply.ok /\ Trim(StripFences(reply.val)) \in JsonTexts

\* C10: analyze-resume and rewrite-resume call the AI service at most once per
\* request; a reply that is not JSON after fence-stripping is not retried and
\* the request ends with exactly one response, HTTP 500 with success false;
\* success true is sent only for a reply that parsed.
C10_BadReplyFailsOnce ==
  Upload =>
    /\ Count(calls, "ai") <= 1
    /\ Len(responses) <= 1
    /\ pc = "done" => Len(responses) = 1
    /\ (reply # None /\ ~ReplyIsJson) =>
         /\ pc = "done"
         /\ Count(calls, "ai") = 1
         /\ Len(responses) = 1
         /\ responses[1].status = 500
         /\ responses[1].success = "false"
    /\ (Len(responses) = 1 /\ responses[1].success = "true") =>
         /\ ReplyIsJson
         /\ responses[1].value = Trim(StripFences(reply.val))

\* C10 witness: a reply with prose around the JSON ends the request with one 500
C10_Witness ==
  /\ Upload
  /\ reply = Ok("Here is the result: {\"overall\":\"7/10\"}")
  /\ pc = "done"
  /\ Count(calls, "ai") = 1
  /\ Len(responses) = 1
  /\ responses[1].status = 500

=============================================================================
